---- MODULE Spec2Model ----
(***************************************************************************)
(* Model of portfolio_tracker.py: a Streamlit page that, on every run,     *)
(* loads transactions.csv into a DataFrame, optionally appends the row of  *)
(* a submitted form and rewrites the whole file, and then renders the      *)
(* portfolio summary computed from the in-memory frame.                    *)
(*                                                                         *)
(* Decimal amounts are modelled as exact integers (no float rounding).     *)
(* A DataFrame cell is an option: <<x>> holds the value x, <<>> is the     *)
(* missing marker (NaN).  Calendar dates are integers (day numbers), are   *)
(* always well formed and read back as written.  Tickers are texts that    *)
(* read_csv does not take for numbers.                                     *)
(***************************************************************************)
EXTENDS Integers, Sequences, FiniteSets, TLC

VARIABLES
    file,        \* transactions.csv: [exists, rows], rows being CSV text rows
    df,          \* df[s]: the DataFrame of session s's current/last script run
    pc,          \* pc[s]: "ready" (no run in progress) or "loaded" (after line 41)
    form,        \* form[s]: the widget values of the submission of the run, if any
    new_row,     \* new_row[s]: the row built at lines 77-87, if any
    msg,         \* msg[s]: "none", "warning" (line 69) or "success" (line 91)
    view,        \* view[s]: what lines 93-187 computed in the run, if anything
    nwrites,     \* history: number of to_csv calls so far
    loadedAt,    \* history: loadedAt[s] = nwrites when s last loaded the file
    lastWriter   \* history: the session whose to_csv wrote the file (0: nobody)

vars == <<file, df, pc, form, new_row, msg, view, nwrites, loadedAt, lastWriter>>

(***************************************************************************)
(* Bounds of the model.                                                    *)
(***************************************************************************)
MaxRows == 2      \* a run appends only while its frame has fewer rows
MaxWrites == 2    \* cap of the history counter nwrites

Sessions == {1, 2}

(***************************************************************************)
(* Cells.                                                                  *)
(***************************************************************************)
NaN == <<>>

IsNaN(x) == x = NaN

\* A numeric CSV field: the text of a number, an empty field, or other text.
NumText(n) == [k |-> "num", v |-> n]

EmptyText == [k |-> "empty", v |-> 0]

BadText == [k |-> "text", v |-> 0]

\* Strings that pd.read_csv turns into NaN by default (keep_default_na=True).
NaValues ==
    {"", "#N/A", "#N/A N/A", "#NA", "-1.#IND", "-1.#QNAN", "-NaN", "-nan",
     "1.#IND", "1.#QNAN", "<NA>", "N/A", "NA", "NULL", "NaN", "None", "n/a",
     "nan", "null"}

\* The order of Python's str comparison on the texts the model groups by.
Collation == <<"", "AAPL", "MSFT", "NA">>

StrRank(s) == CHOOSE i \in 1..Len(Collation) : Collation[i] = s

StrLess(a, b) == StrRank(a) < StrRank(b)

(***************************************************************************)
(* Lines 19-41: pd.read_csv and the normalisation of the numeric columns.  *)
(***************************************************************************)
\* read_csv on a text column: a default NA string becomes NaN.
ReadStr(t) == IF t \in NaValues THEN NaN ELSE <<t>>

\* read_csv on a numeric column: an empty field becomes NaN; other text stays.
ReadNum(c) == IF c.k = "empty" THEN [k |-> "nan", v |-> 0] ELSE c

\* pd.to_numeric(errors="coerce"): what does not parse as a number is NaN.
ToNumeric(x) == IF x.k = "num" THEN <<x.v>> ELSE NaN

ReadCsvRow(r) ==
    [fecha          |-> r.fecha,
     activo         |-> ReadStr(r.activo),
     nombre_activo  |-> ReadStr(r.nombre_activo),
     tipo_operacion |-> ReadStr(r.tipo_operacion),
     cantidad       |-> ReadNum(r.cantidad),
     precio         |-> ReadNum(r.precio),
     divisa         |-> ReadStr(r.divisa),
     fx_a_eur       |-> ReadNum(r.fx_a_eur),
     importe_eur    |-> ReadNum(r.importe_eur)]

ReadCsv(rows) == [i \in 1..Len(rows) |-> ReadCsvRow(rows[i])]

NormaliseRow(r) ==
    [r EXCEPT !.cantidad    = ToNumeric(r.cantidad),
              !.precio      = ToNumeric(r.precio),
              !.fx_a_eur    = ToNumeric(r.fx_a_eur),
              !.importe_eur = ToNumeric(r.importe_eur)]

Normalise(d) == [i \in 1..Len(d) |-> NormaliseRow(d[i])]

\* The frame a run starts from: the file's rows, or no rows without a file.
LoadFrame(f) == IF f.exists THEN Normalise(ReadCsv(f.rows)) ELSE <<>>

(***************************************************************************)
(* Line 90: df.to_csv(DATA_FILE, index=False).                             *)
(***************************************************************************)
WriteStr(x) == IF IsNaN(x) THEN "" ELSE x[1]

WriteNum(x) == IF IsNaN(x) THEN EmptyText ELSE NumText(x[1])

ToCsvRow(r) ==
    [fecha          |-> r.fecha,
     activo         |-> WriteStr(r.activo),
     nombre_activo  |-> WriteStr(r.nombre_activo),
     tipo_operacion |-> WriteStr(r.tipo_operacion),
     cantidad       |-> WriteNum(r.cantidad),
     precio         |-> WriteNum(r.precio),
     divisa         |-> WriteStr(r.divisa),
     fx_a_eur       |-> WriteNum(r.fx_a_eur),
     importe_eur    |-> WriteNum(r.importe_eur)]

ToCsv(d) == [exists |-> TRUE, rows |-> [i \in 1..Len(d) |-> ToCsvRow(d[i])]]

(***************************************************************************)
(* Lines 67-91: the submit handler of form "nuevo_movimiento".             *)
(***************************************************************************)
\* Mutant of HasTicker: the check of line 68 left out.
HasTickerUnchecked(activo) == TRUE

\* Line 68: `not activo` is true exactly for the empty string.
HasTicker(activo) == activo # ""

\* Mutant of sign: the operation ignored.
signAlwaysPlus(tipo_operacion) == 1

\* Line 72.
sign(tipo_operacion) == IF tipo_operacion = "Compra" THEN 1 ELSE -1

\* Line 75.
importe_eur(f) == sign(f.tipo_operacion) * f.cantidad * f.precio * f.fx_a_eur

\* Lines 77-87.
NewRow(f) ==
    [fecha          |-> f.fecha,
     activo         |-> <<f.activo>>,
     nombre_activo  |-> <<f.nombre_activo>>,
     tipo_operacion |-> <<f.tipo_operacion>>,
     cantidad       |-> <<sign(f.tipo_operacion) * f.cantidad>>,
     precio         |-> <<f.precio>>,
     divisa         |-> <<f.divisa>>,
     fx_a_eur       |-> <<f.fx_a_eur>>,
     importe_eur    |-> <<importe_eur(f)>>]

\* Mutant of Concat: the row is appended to a fresh read of the file.
ConcatOnReread(d, row) == Append(LoadFrame(file), row)

\* Line 89: pd.concat([df, pd.DataFrame([new_row])], ignore_index=True).
Concat(d, row) == Append(d, row)

(***************************************************************************)
(* Lines 105-145: the portfolio summary.                                   *)
(***************************************************************************)
\* Column c of frame d.
Col(d, c) == [i \in 1..Len(d) |-> d[i][c]]

\* Series.sum() / GroupBy.sum(): missing values are skipped, no value gives 0.
RECURSIVE SumCol(_)
SumCol(col) ==
    IF col = <<>> THEN 0
    ELSE (IF IsNaN(Head(col)) THEN 0 ELSE Head(col)[1]) + SumCol(Tail(col))

\* Mutant of LastValid: the first value of the column that is not missing.
RECURSIVE FirstValid(_)
FirstValid(col) ==
    IF col = <<>> THEN NaN
    ELSE IF IsNaN(Head(col)) THEN FirstValid(Tail(col))
    ELSE Head(col)

\* GroupBy "last": the last value of the column that is not missing.
RECURSIVE LastValid(_)
LastValid(col) ==
    IF col = <<>> THEN NaN
    ELSE IF IsNaN(col[Len(col)]) THEN LastValid(SubSeq(col, 1, Len(col) - 1))
    ELSE col[Len(col)]

\* Mutant of Mul: the factors added.
MulAsSum(a, b) == IF IsNaN(a) \/ IsNaN(b) THEN NaN ELSE <<a[1] + b[1]>>

\* Float product and difference: a missing operand gives a missing result.
Mul(a, b) == IF IsNaN(a) \/ IsNaN(b) THEN NaN ELSE <<a[1] * b[1]>>

Sub(a, b) == IF IsNaN(a) \/ IsNaN(b) THEN NaN ELSE <<a[1] - b[1]>>

\* df.groupby("activo"): rows with a missing key are dropped (dropna=True)
\* and the groups come sorted by key (sort=True).
GroupKeySet(d) == {d[i].activo : i \in 1..Len(d)} \ {NaN}

RECURSIVE SortKeys(_)
SortKeys(S) ==
    IF S = {} THEN <<>>
    ELSE LET m == CHOOSE x \in S : \A y \in S \ {x} : StrLess(x[1], y[1])
         IN  <<m>> \o SortKeys(S \ {m})

\* Mutant of GroupKeys: the keys in order of first appearance (sort=False).
RECURSIVE KeysAsSeen(_)
KeysAsSeen(d) ==
    IF d = <<>> THEN <<>>
    ELSE LET front == KeysAsSeen(SubSeq(d, 1, Len(d) - 1))
             key   == d[Len(d)].activo
         IN  IF IsNaN(key) \/ (\E j \in 1..Len(front) : front[j] = key)
             THEN front
             ELSE Append(front, key)

GroupKeys(d) == SortKeys(GroupKeySet(d))

GroupRows(d, key) == SelectSeq(d, LAMBDA r : r.activo = key)

\* Lines 108-119: one aggregated row per group.
AggRow(d, key) ==
    LET g == GroupRows(d, key)
    IN  [activo           |-> key,
         nombre_activo    |-> LastValid(Col(g, "nombre_activo")),
         cantidad_neta    |-> <<SumCol(Col(g, "cantidad"))>>,
         importe_neto_eur |-> <<SumCol(Col(g, "importe_eur"))>>,
         ultima_divisa    |-> LastValid(Col(g, "divisa")),
         ultimo_precio    |-> LastValid(Col(g, "precio")),
         ultimo_fx_a_eur  |-> LastValid(Col(g, "fx_a_eur"))]

\* Exact quotients: <<n, d>> with d > 0 in lowest terms; <<s, 0>> is the
\* result of a division by zero (numpy's inf, -inf or nan by the sign s).
RECURSIVE Gcd(_, _)
Gcd(a, b) == IF b = 0 THEN a ELSE Gcd(b, a % b)

Abs(n) == IF n < 0 THEN -n ELSE n

Sgn(n) == IF n < 0 THEN -1 ELSE IF n > 0 THEN 1 ELSE 0

Quot(n, d) ==
    IF d = 0 THEN <<Sgn(n), 0>>
    ELSE LET g == Gcd(Abs(n), Abs(d))
         IN  <<Sgn(d) * (n \div g), Abs(d) \div g>>

Divide(a, b) == IF IsNaN(a) \/ IsNaN(b) THEN NaN ELSE Quot(a[1], b[1])

Times(q, k) == IF IsNaN(q) THEN NaN ELSE Quot(q[1] * k, q[2])

\* Mutant of SafePct: the guard against a zero base left out.
UnguardedPct(gain, base) == Times(Divide(gain, base), 100)

\* Lines 134-136 and 143-145: the guarded percentage.
SafePct(gain, base) ==
    IF base # <<0>> THEN Times(Divide(gain, base), 100) ELSE <<0, 1>>

\* Lines 122-138: the derived columns of one summary row.
SummaryRow(a) ==
    LET valor == Mul(Mul(a.cantidad_neta, a.ultimo_precio), a.ultimo_fx_a_eur)
        rent  == Sub(valor, a.importe_neto_eur)
    IN  [activo           |-> a.activo,
         nombre_activo    |-> a.nombre_activo,
         cantidad_neta    |-> a.cantidad_neta,
         importe_neto_eur |-> a.importe_neto_eur,
         ultima_divisa    |-> a.ultima_divisa,
         ultimo_precio    |-> a.ultimo_precio,
         ultimo_fx_a_eur  |-> a.ultimo_fx_a_eur,
         valor_actual_eur |-> valor,
         rentabilidad_eur |-> rent,
         rentabilidad_pct |-> SafePct(rent, a.importe_neto_eur)]

resumen_activos(d) ==
    LET keys == GroupKeys(d)
    IN  [j \in 1..Len(keys) |-> SummaryRow(AggRow(d, keys[j]))]

(***************************************************************************)
(* Lines 175-182: the cumulative contributions by date.                    *)
(***************************************************************************)
RECURSIVE SortDates(_)
SortDates(S) ==
    IF S = {} THEN <<>>
    ELSE LET m == CHOOSE x \in S : \A y \in S : x <= y
         IN  <<m>> \o SortDates(S \ {m})

\* groupby("fecha")["importe_eur"].sum(): one total per date, dates ascending.
SumByDate(d) ==
    LET ds == SortDates({d[i].fecha : i \in 1..Len(d)})
    IN  [j \in 1..Len(ds) |->
            [fecha |-> ds[j],
             importe_eur |->
                 SumCol(Col(SelectSeq(d, LAMBDA r : r.fecha = ds[j]), "importe_eur"))]]

\* Mutant of CumSum: the totals per date, not accumulated.
TotalsPerDate(t) ==
    [j \in 1..Len(t) |->
        [fecha |-> t[j].fecha, aportacion_acumulada_eur |-> t[j].importe_eur]]

\* .cumsum(): the running total of the series.
RECURSIVE CumSum(_)
CumSum(t) ==
    IF t = <<>> THEN <<>>
    ELSE LET front == CumSum(SubSeq(t, 1, Len(t) - 1))
             prev  == IF front = <<>> THEN 0 ELSE front[Len(front)].aportacion_acumulada_eur
         IN  Append(front,
                    [fecha |-> t[Len(t)].fecha,
                     aportacion_acumulada_eur |-> prev + t[Len(t)].importe_eur])

df_by_date(d) == CumSum(SumByDate(d))

(***************************************************************************)
(* Lines 96-187: what a run renders; nothing is computed for an empty df.  *)
(***************************************************************************)
Render(d) ==
    IF d = <<>> THEN <<>>
    ELSE LET aportacion_neta    == <<SumCol(Col(d, "importe_eur"))>>
             resumen            == resumen_activos(d)
             valor_total_actual == <<SumCol(Col(resumen, "valor_actual_eur"))>>
             rentab_total_eur   == Sub(valor_total_actual, aportacion_neta)
         IN  <<[aportacion_neta    |-> aportacion_neta,
                resumen_activos    |-> resumen,
                valor_total_actual |-> valor_total_actual,
                rentab_total_eur   |-> rentab_total_eur,
                rentab_total_pct   |-> SafePct(rentab_total_eur, aportacion_neta),
                df_by_date         |-> df_by_date(d)]>>

(***************************************************************************)
(* The file before the first run: absent, or left by earlier use.  A       *)
(* legacy file may hold numeric fields that are empty or not numbers,      *)
(* which line 41 coerces.                                                  *)
(***************************************************************************)
NoFile == [exists |-> FALSE, rows |-> <<>>]

GoodLine ==
    [fecha |-> 1, activo |-> "AAPL", nombre_activo |-> "Apple",
     tipo_operacion |-> "Compra", cantidad |-> NumText(10), precio |-> NumText(100),
     divisa |-> "USD", fx_a_eur |-> NumText(1), importe_eur |-> NumText(1000)]

BadLine ==
    [fecha |-> 2, activo |-> "AAPL", nombre_activo |-> "",
     tipo_operacion |-> "Compra", cantidad |-> NumText(5), precio |-> BadText,
     divisa |-> "EUR", fx_a_eur |-> EmptyText, importe_eur |-> NumText(500)]

NaLine ==
    [fecha |-> 1, activo |-> "NA", nombre_activo |-> "Nordic American",
     tipo_operacion |-> "Compra", cantidad |-> NumText(4), precio |-> NumText(100),
     divisa |-> "USD", fx_a_eur |-> NumText(1), importe_eur |-> NumText(400)]

InitialFiles ==
    {NoFile,
     [exists |-> TRUE, rows |-> <<BadLine>>],
     [exists |-> TRUE, rows |-> <<NaLine>>],
     [exists |-> TRUE, rows |-> <<GoodLine, BadLine>>]}

(***************************************************************************)
(* The values the widgets of lines 47-63 can hold at a submission.         *)
(***************************************************************************)
\* Submissions that vary the amounts (zero included) and the validity.
AmountForms ==
    [fecha : {1}, activo : {"", "AAPL"}, nombre_activo : {"Apple"},
     tipo_operacion : {"Compra", "Venta"}, cantidad : {0, 2}, precio : {0, 3},
     divisa : {"EUR"}, fx_a_eur : {0, 1}]

\* Submissions that vary the texts: the ticker NA, the optional name.
TextForms ==
    [fecha : {1}, activo : {"AAPL", "NA"}, nombre_activo : {"", "Apple"},
     tipo_operacion : {"Compra", "Venta"}, cantidad : {2}, precio : {3},
     divisa : {"EUR"}, fx_a_eur : {1}]

LedgerForms == AmountForms \cup TextForms

\* Submissions that vary what the summary groups and orders by.
SummaryForms ==
    [fecha : {1, 2}, activo : {"AAPL", "MSFT"}, nombre_activo : {""},
     tipo_operacion : {"Compra", "Venta"}, cantidad : {4, 10}, precio : {100, 120},
     divisa : {"USD"}, fx_a_eur : {1}]
    \cup
    [fecha : {1}, activo : {""}, nombre_activo : {""},
     tipo_operacion : {"Compra"}, cantidad : {4}, precio : {100},
     divisa : {"USD"}, fx_a_eur : {1}]

\* Submissions of two sessions racing on the file.
RaceForms ==
    [fecha : {1}, activo : {"", "AAPL", "MSFT"}, nombre_activo : {"x"},
     tipo_operacion : {"Compra", "Venta"}, cantidad : {2}, precio : {3},
     divisa : {"EUR"}, fx_a_eur : {1}]

(***************************************************************************)
(* State machine: a script run is Load followed by NoSubmit or Submit.     *)
(***************************************************************************)
Init ==
    /\ file \in InitialFiles
    /\ df = [s \in Sessions |-> <<>>]
    /\ pc = [s \in Sessions |-> "ready"]
    /\ form = [s \in Sessions |-> <<>>]
    /\ new_row = [s \in Sessions |-> <<>>]
    /\ msg = [s \in Sessions |-> "none"]
    /\ view = [s \in Sessions |-> <<>>]
    /\ nwrites = 0
    /\ loadedAt = [s \in Sessions |-> 0]
    /\ lastWriter = 0

\* Lines 19-41: a run starts and loads the file.
Load(s) ==
    /\ pc[s] = "ready"
    /\ pc' = [pc EXCEPT ![s] = "loaded"]
    /\ df' = [df EXCEPT ![s] = LoadFrame(file)]
    /\ form' = [form EXCEPT ![s] = <<>>]
    /\ new_row' = [new_row EXCEPT ![s] = <<>>]
    /\ msg' = [msg EXCEPT ![s] = "none"]
    /\ view' = [view EXCEPT ![s] = <<>>]
    /\ loadedAt' = [loadedAt EXCEPT ![s] = nwrites]
    /\ UNCHANGED <<file, nwrites, lastWriter>>

\* Line 67 with submitted = False, then lines 93-187.
NoSubmit(s) ==
    /\ pc[s] = "loaded"
    /\ pc' = [pc EXCEPT ![s] = "ready"]
    /\ view' = [view EXCEPT ![s] = Render(df[s])]
    /\ UNCHANGED <<file, df, form, new_row, msg, nwrites, loadedAt, lastWriter>>

\* Lines 67-91 with submitted = True and widget values f, then lines 93-187.
Submit(s, f) ==
    /\ pc[s] = "loaded"
    /\ pc' = [pc EXCEPT ![s] = "ready"]
    /\ form' = [form EXCEPT ![s] = <<f>>]
    /\ IF ~HasTicker(f.activo)
       THEN /\ msg' = [msg EXCEPT ![s] = "warning"]
            /\ view' = [view EXCEPT ![s] = Render(df[s])]
            /\ UNCHANGED <<file, df, new_row, nwrites, lastWriter>>
       ELSE /\ Len(df[s]) < MaxRows
            /\ nwrites < MaxWrites
            /\ new_row' = [new_row EXCEPT ![s] = <<NewRow(f)>>]
            /\ df' = [df EXCEPT ![s] = Concat(df[s], NewRow(f))]
            /\ file' = ToCsv(Concat(df[s], NewRow(f)))
            /\ msg' = [msg EXCEPT ![s] = "success"]
            /\ view' = [view EXCEPT ![s] = Render(Concat(df[s], NewRow(f)))]
            /\ nwrites' = nwrites + 1
            /\ lastWriter' = s
    /\ UNCHANGED loadedAt

\* One browser session using the page.
Next ==
    \/ Load(1)
    \/ NoSubmit(1)
    \/ \E f \in LedgerForms : Submit(1, f)

Spec == Init /\ [][Next]_vars

\* One session whose submissions exercise the summary.
NextSummary ==
    \/ Load(1)
    \/ NoSubmit(1)
    \/ \E f \in SummaryForms : Submit(1, f)

SpecSummary == Init /\ [][NextSummary]_vars

\* Two sessions on the same file; their runs interleave between the load of
\* line 20 and the write of line 90 (no lock is taken).
NextRace ==
    \E s \in Sessions :
        \/ Load(s)
        \/ NoSubmit(s)
        \/ \E f \in RaceForms : Submit(s, f)

SpecRace == Init /\ [][NextRace]_vars

(***************************************************************************)
(* Claims about the ledger (specification Spec).                           *)
(***************************************************************************)
Front(q) == SubSeq(q, 1, Len(q) - 1)

Last(q) == q[Len(q)]

PersistedRows == IF file.exists THEN file.rows ELSE <<>>

\* C1: after a valid submission, re-loading the persisted file yields a frame
\* whose last row equals the appended record: the entered date, asset, name,
\* operation, price, currency and fx rate, quantity = sign * entered quantity
\* and amount = sign * quantity * price * fx rate, sign being +1 for Compra
\* and -1 for Venta.
C1_ReloadYieldsAppendedRecord ==
    \A s \in Sessions :
        (pc[s] = "ready" /\ msg[s] = "success" /\ lastWriter = s) =>
            LET f  == form[s][1]
                d  == LoadFrame(file)
                sg == IF f.tipo_operacion = "Compra" THEN 1 ELSE -1
            IN  /\ Len(d) >= 1
                /\ Last(d) = new_row[s][1]
                /\ Last(d).fecha = f.fecha
                /\ Last(d).activo = <<f.activo>>
                /\ Last(d).nombre_activo = <<f.nombre_activo>>
                /\ Last(d).tipo_operacion = <<f.tipo_operacion>>
                /\ Last(d).precio = <<f.precio>>
                /\ Last(d).divisa = <<f.divisa>>
                /\ Last(d).fx_a_eur = <<f.fx_a_eur>>
                /\ Last(d).cantidad = <<sg * f.cantidad>>
                /\ Last(d).importe_eur = <<sg * f.cantidad * f.precio * f.fx_a_eur>>

\* C2: a submission whose ticker is empty is rejected: no row is appended to
\* the frame, the file is not written (unchanged, and not created when it did
\* not exist), and the warning is shown instead of the success message.
C2_EmptyTickerRejected ==
    [][\A s \in Sessions :
          (/\ pc[s] = "loaded"
           /\ pc'[s] = "ready"
           /\ form'[s] # <<>>
           /\ form'[s][1].activo = "")
          => (/\ file' = file
              /\ df'[s] = df[s]
              /\ new_row'[s] = <<>>
              /\ msg'[s] = "warning"
              /\ nwrites' = nwrites)]_vars

\* C2 witness: an empty-ticker submission was rejected while no file existed.
C2_Witness ==
    /\ pc[1] = "ready"
    /\ form[1] # <<>>
    /\ form[1][1].activo = ""
    /\ msg[1] = "warning"
    /\ ~file.exists
    /\ df[1] = <<>>

\* C3: the persisted collection is append-only: every step leaves the file as
\* it was or adds exactly one record at its end; no persisted record is
\* changed, reordered or removed.
C3_AppendOnly ==
    [][\/ file' = file
       \/ /\ file'.exists
          /\ Len(file'.rows) = Len(PersistedRows) + 1
          /\ Front(file'.rows) = PersistedRows]_vars

\* C4: in every record a submission creates, quantity and amount carry the
\* same sign, set by the operation alone: positive for Compra, negative for
\* Venta, for every allowed input, zero included.
C4_SignStrict ==
    \A s \in Sessions :
        new_row[s] # <<>> =>
            LET r == new_row[s][1]
            IN  IF r.tipo_operacion = <<"Compra">>
                THEN r.cantidad[1] > 0 /\ r.importe_eur[1] > 0
                ELSE r.cantidad[1] < 0 /\ r.importe_eur[1] < 0

\* C4 as amended: quantity and amount never carry opposite signs: both are
\* >= 0 for Compra and <= 0 for Venta; the quantity is zero exactly when the
\* entered quantity is zero, and the amount is zero exactly when the entered
\* quantity, price or fx rate is zero.
C4_SignWeak ==
    \A s \in Sessions :
        new_row[s] # <<>> =>
            LET r == new_row[s][1]
                f == form[s][1]
            IN  /\ IF f.tipo_operacion = "Compra"
                   THEN r.cantidad[1] >= 0 /\ r.importe_eur[1] >= 0
                   ELSE r.cantidad[1] <= 0 /\ r.importe_eur[1] <= 0
                /\ (r.cantidad[1] = 0) <=> (f.cantidad = 0)
                /\ (r.importe_eur[1] = 0)
                       <=> (f.cantidad = 0 \/ f.precio = 0 \/ f.fx_a_eur = 0)

\* C4 witness: a sale of a positive quantity at price zero was recorded.
C4_Witness ==
    /\ new_row[1] # <<>>
    /\ form[1][1].tipo_operacion = "Venta"
    /\ form[1][1].cantidad > 0
    /\ form[1][1].precio = 0
    /\ new_row[1][1].cantidad[1] < 0
    /\ new_row[1][1].importe_eur = <<0>>

(***************************************************************************)
(* Claim about two sessions (specification SpecRace).                      *)
(***************************************************************************)
\* C5: when both sessions loaded the file before either wrote and each then
\* appends a valid record, the write of the second one is a full rewrite from
\* its own frame: the file ends as what was loaded plus the last writer's
\* record, without the record the other session appended.
C5_LostUpdate ==
    [][\A s \in Sessions : \A o \in Sessions \ {s} :
          (/\ pc[s] = "loaded"
           /\ msg'[s] = "success"
           /\ lastWriter = o
           /\ msg[o] = "success"
           /\ loadedAt[s] = loadedAt[o]
           /\ nwrites = loadedAt[o] + 1)
          => (/\ file' = ToCsv(df'[s])
              /\ Len(file'.rows) = Len(file.rows)
              /\ Front(file'.rows) = Front(file.rows)
              /\ Last(file'.rows) = ToCsvRow(new_row'[s][1]))]_vars

\* C5 witness: both sessions appended to the same loaded file and the record
\* of the first writer is no longer in the file.
C5_Witness ==
    \E s \in Sessions : \E o \in Sessions \ {s} :
        /\ pc[s] = "ready" /\ pc[o] = "ready"
        /\ msg[s] = "success" /\ msg[o] = "success"
        /\ loadedAt[s] = loadedAt[o]
        /\ nwrites = loadedAt[s] + 2
        /\ lastWriter = s
        /\ \A i \in 1..Len(file.rows) : file.rows[i] # ToCsvRow(new_row[o][1])

(***************************************************************************)
(* Claims about the summary (specifications SpecSummary and Spec).         *)
(***************************************************************************)
\* The asset ids of a frame, and the positions of the rows of one of them.
Assets(d) == {d[i].activo : i \in 1..Len(d)} \ {NaN}

RowsOf(d, a) == {i \in 1..Len(d) : d[i].activo = a}

Max(S) == CHOOSE x \in S : \A y \in S : y <= x

Min(S) == CHOOSE x \in S : \A y \in S : x <= y

\* The sum of column c over the rows at positions I, missing values skipped.
RECURSIVE SumAt(_, _, _)
SumAt(I, d, c) ==
    IF I = {} THEN 0
    ELSE LET i == CHOOSE x \in I : TRUE
         IN  (IF d[i][c] = NaN THEN 0 ELSE d[i][c][1]) + SumAt(I \ {i}, d, c)

\* C6: for every asset of a non-empty collection, the summary row has
\* net quantity = sum of quantity and net contribution = sum of amount over
\* the asset's rows, current value = net quantity * last price * last fx
\* rate and unrealized P/L = current value - net contribution; and
\* [AAPL Compra 10 at 100 fx 1, AAPL Venta 4 at 120 fx 1] gives 6, 520, 720
\* and 200.
C6_AssetSummary ==
    \A s \in Sessions :
        view[s] # <<>> =>
            LET d == df[s]
                t == view[s][1].resumen_activos
            IN  /\ \A a \in Assets(d) :
                       \E j \in 1..Len(t) :
                           /\ t[j].activo = a
                           /\ t[j].cantidad_neta = <<SumAt(RowsOf(d, a), d, "cantidad")>>
                           /\ t[j].importe_neto_eur = <<SumAt(RowsOf(d, a), d, "importe_eur")>>
                           /\ t[j].valor_actual_eur =
                                  IF t[j].ultimo_precio = NaN \/ t[j].ultimo_fx_a_eur = NaN
                                  THEN NaN
                                  ELSE <<t[j].cantidad_neta[1] * t[j].ultimo_precio[1]
                                           * t[j].ultimo_fx_a_eur[1]>>
                           /\ t[j].rentabilidad_eur =
                                  IF t[j].valor_actual_eur = NaN
                                  THEN NaN
                                  ELSE <<t[j].valor_actual_eur[1] - t[j].importe_neto_eur[1]>>
                /\ (/\ Len(d) = 2
                    /\ d[1].activo = <<"AAPL">> /\ d[2].activo = <<"AAPL">>
                    /\ d[1].cantidad = <<10>> /\ d[1].precio = <<100>>
                    /\ d[1].fx_a_eur = <<1>> /\ d[1].importe_eur = <<1000>>
                    /\ d[2].cantidad = <<-4>> /\ d[2].precio = <<120>>
                    /\ d[2].fx_a_eur = <<1>> /\ d[2].importe_eur = <<-480>>)
                   => (/\ Len(t) = 1
                       /\ t[1].cantidad_neta = <<6>>
                       /\ t[1].importe_neto_eur = <<520>>
                       /\ t[1].valor_actual_eur = <<720>>
                       /\ t[1].rentabilidad_eur = <<200>>)

\* C6 witness: the page rendered the AAPL scenario, entered by two
\* submissions (Compra 10 at 100, then Venta 4 at 120).
C6_Witness ==
    /\ view[1] # <<>>
    /\ Len(df[1]) = 2
    /\ df[1][1].activo = <<"AAPL">> /\ df[1][2].activo = <<"AAPL">>
    /\ df[1][1].tipo_operacion = <<"Compra">> /\ df[1][1].cantidad = <<10>>
    /\ df[1][1].precio = <<100>> /\ df[1][1].importe_eur = <<1000>>
    /\ df[1][2].tipo_operacion = <<"Venta">> /\ df[1][2].cantidad = <<-4>>
    /\ df[1][2].precio = <<120>> /\ df[1][2].importe_eur = <<-480>>
    /\ form[1] # <<>> /\ form[1][1].cantidad = 4
    /\ view[1][1].resumen_activos[1].rentabilidad_pct = <<500, 13>>

\* C7: the cumulative series of a non-empty collection has one entry per
\* distinct date, in ascending date order, each the sum of the amounts of
\* the transactions dated on or before its date; its final value is the
\* portfolio net contribution, the sum of all amounts.
C7_CumulativeSeries ==
    \A s \in Sessions :
        view[s] # <<>> =>
            LET d == df[s]
                t == view[s][1].df_by_date
                dates == {d[i].fecha : i \in 1..Len(d)}
            IN  /\ Len(t) = Cardinality(dates)
                /\ {t[j].fecha : j \in 1..Len(t)} = dates
                /\ \A j \in 1..Len(t) : \A k \in 1..Len(t) :
                       j < k => t[j].fecha < t[k].fecha
                /\ \A j \in 1..Len(t) :
                       t[j].aportacion_acumulada_eur =
                           SumAt({i \in 1..Len(d) : d[i].fecha <= t[j].fecha}, d, "importe_eur")
                /\ t[Len(t)].aportacion_acumulada_eur = view[s][1].aportacion_neta[1]
                /\ view[s][1].aportacion_neta = <<SumAt(1..Len(d), d, "importe_eur")>>

\* C7 witness: a later-dated purchase was entered before an earlier-dated
\* one, and the series has both dates with a final value that differs from
\* the first.
C7_Witness ==
    /\ view[1] # <<>>
    /\ Len(df[1]) = 2
    /\ df[1][1].fecha > df[1][2].fecha
    /\ Len(view[1][1].df_by_date) = 2
    /\ view[1][1].df_by_date[1].aportacion_acumulada_eur = 400
    /\ view[1][1].df_by_date[2].aportacion_acumulada_eur = 1400

\* p is gain / base * 100 (missing when the gain is missing).
IsPct(p, gain, base) ==
    IF gain = NaN THEN p = NaN
    ELSE /\ p # NaN
         /\ p[2] > 0
         /\ p[1] * base[1] = gain[1] * 100 * p[2]

\* C8: an asset whose net contribution is 0 has percentage 0, and a portfolio
\* whose net contribution is 0 has return percentage 0; no percentage is the
\* result of a division by zero; otherwise the percentage is
\* P/L / net contribution * 100.
C8_GuardedPercentage ==
    \A s \in Sessions :
        view[s] # <<>> =>
            LET v == view[s][1]
                t == v.resumen_activos
            IN  /\ \A j \in 1..Len(t) :
                       /\ t[j].importe_neto_eur = <<0>> => t[j].rentabilidad_pct = <<0, 1>>
                       /\ t[j].importe_neto_eur # <<0>> =>
                              IsPct(t[j].rentabilidad_pct, t[j].rentabilidad_eur,
                                    t[j].importe_neto_eur)
                       /\ t[j].rentabilidad_pct # NaN => t[j].rentabilidad_pct[2] # 0
                /\ v.aportacion_neta = <<0>> => v.rentab_total_pct = <<0, 1>>
                /\ v.aportacion_neta # <<0>> =>
                       IsPct(v.rentab_total_pct, v.rentab_total_eur, v.aportacion_neta)
                /\ v.rentab_total_pct # NaN => v.rentab_total_pct[2] # 0

\* C8 witness: an asset (and the portfolio) with net contribution 0 and a
\* P/L that is not 0 is shown with percentage 0.
C8_Witness ==
    /\ view[1] # <<>>
    /\ Len(view[1][1].resumen_activos) = 1
    /\ view[1][1].resumen_activos[1].importe_neto_eur = <<0>>
    /\ view[1][1].resumen_activos[1].rentabilidad_eur = <<6>>
    /\ view[1][1].resumen_activos[1].rentabilidad_pct = <<0, 1>>
    /\ view[1][1].aportacion_neta = <<0>>
    /\ view[1][1].rentab_total_eur = <<6>>
    /\ view[1][1].rentab_total_pct = <<0, 1>>

\* C9: the last price, currency and fx rate of an asset's summary are those
\* of the asset's transaction entered last (insertion order, whatever the
\* dates), also when that transaction's price or fx rate is missing.
C9_LastEntered ==
    \A s \in Sessions :
        view[s] # <<>> =>
            LET d == df[s]
                t == view[s][1].resumen_activos
            IN  \A j \in 1..Len(t) :
                    LET m == Max(RowsOf(d, t[j].activo))
                    IN  /\ t[j].ultimo_precio = d[m].precio
                        /\ t[j].ultima_divisa = d[m].divisa
                        /\ t[j].ultimo_fx_a_eur = d[m].fx_a_eur

\* The value of column c in the last of the rows at positions I where it is
\* not missing; missing when it is missing in all of them.
LastPresent(I, d, c) ==
    LET P == {i \in I : d[i][c] # NaN}
    IN  IF P = {} THEN NaN ELSE d[Max(P)][c]

\* C9 as amended: each of last price, currency and fx rate is, column by
\* column, the value of the asset's transaction entered last among those
\* where that column is not missing (insertion order, whatever the dates),
\* and is missing only when the column is missing in all of them.
C9_LastPresent ==
    \A s \in Sessions :
        view[s] # <<>> =>
            LET d == df[s]
                t == view[s][1].resumen_activos
            IN  \A j \in 1..Len(t) :
                    LET I == RowsOf(d, t[j].activo)
                    IN  /\ t[j].ultimo_precio = LastPresent(I, d, "precio")
                        /\ t[j].ultima_divisa = LastPresent(I, d, "divisa")
                        /\ t[j].ultimo_fx_a_eur = LastPresent(I, d, "fx_a_eur")

\* C9 witness: a backdated purchase entered after a later-dated one of the
\* same asset, at another price, supplies the last price.
C9_Witness ==
    /\ view[1] # <<>>
    /\ Len(df[1]) = 2
    /\ df[1][1].activo = df[1][2].activo
    /\ df[1][2].fecha < df[1][1].fecha
    /\ df[1][1].precio = <<100>>
    /\ df[1][2].precio = <<120>>
    /\ view[1][1].resumen_activos[1].ultimo_precio = <<120>>

\* C10: the summary has exactly one row per distinct asset id of the
\* collection, the rows ordered by the position of each asset's first
\* transaction (first-seen order).
C10_FirstSeenOrder ==
    \A s \in Sessions :
        view[s] # <<>> =>
            LET d == df[s]
                t == view[s][1].resumen_activos
            IN  /\ Len(t) = Cardinality(Assets(d))
                /\ {t[j].activo : j \in 1..Len(t)} = Assets(d)
                /\ \A j \in 1..Len(t) : \A k \in 1..Len(t) :
                       j < k => Min(RowsOf(d, t[j].activo)) < Min(RowsOf(d, t[k].activo))

\* C10 as amended: the summary has exactly one row per distinct asset id that
\* is not missing (rows whose asset id is missing are in no summary row),
\* the rows in ascending order of asset id.
C10_SortedByAsset ==
    \A s \in Sessions :
        view[s] # <<>> =>
            LET d == df[s]
                t == view[s][1].resumen_activos
            IN  /\ Len(t) = Cardinality(Assets(d))
                /\ {t[j].activo : j \in 1..Len(t)} = Assets(d)
                /\ \A j \in 1..Len(t) : t[j].activo # NaN
                /\ \A j \in 1..Len(t) : \A k \in 1..Len(t) :
                       j < k => StrLess(t[j].activo[1], t[k].activo[1])

\* C10 witness: MSFT was entered before AAPL and the summary lists AAPL first.
C10_Witness ==
    /\ view[1] # <<>>
    /\ Len(df[1]) = 2
    /\ df[1][1].activo = <<"MSFT">>
    /\ df[1][2].activo = <<"AAPL">>
    /\ Len(view[1][1].resumen_activos) = 2
    /\ view[1][1].resumen_activos[1].activo = <<"AAPL">>

====
